---- MODULE Spec2Model ----
(***************************************************************************)
(* Model of the SharePoint MCP tool server (src/mcp_server.py) and of the  *)
(* ChatGPT prompt dispatcher (src/mcp_client.py).                          *)
(*                                                                         *)
(* Python values are represented as follows.                               *)
(*   str    a sequence of characters.  Payload strings are sequences of    *)
(*          code points (naturals), because their bytes matter; paths,     *)
(*          names and prompt words are sequences of one-character strings. *)
(*   bytes  a sequence of naturals in 0..255.                              *)
(*   an optional / dynamically typed value is a record [t, v] with         *)
(*          t \in {"none", "str", "bytes"}.                                *)
(*   dict   a function from key strings to values (a record).              *)
(***************************************************************************)
EXTENDS Integers, Sequences, FiniteSets, TLC

\* ------------------------------------------------------------------ bounds
\* Longest upload payload (characters) enumerated exhaustively.
MaxLen == 4
\* Longest file (bytes) the backend returns from a download.
MaxBytes == 3
\* Most requests the framework holds queued for the event loop.
MaxPending == 2
\* Most prompt words on the dispatcher's command line.
MaxWords == 2

\* ------------------------------------------------------- python values
NoneV == [t |-> "none", v |-> <<>>]
StrV(s) == [t |-> "str", v |-> s]
BytesV(b) == [t |-> "bytes", v |-> b]

\* Python truthiness of an optional string: None and "" are falsy.
Truthy(x) == x.t # "none" /\ x.v # <<>>

\* `a or b` for optional strings.
OrElse(a, b) == IF Truthy(a) THEN a ELSE b

\* All sequences over S of length at most n.
SeqsUpTo(S, n) == UNION {[1..k -> S] : k \in 0..n}

\* A successful / failed evaluation of an expression that may raise.
Ok(val) == [ok |-> TRUE, v |-> val, err |-> ""]
Raise(e) == [ok |-> FALSE, v |-> <<>>, err |-> e]

\* ------------------------------------------------------------ base64
\* binascii's decoding table: the sextet of an alphabet character, 64 for
\* every character outside the alphabet.
Sextet(c) ==
    IF c >= 65 /\ c <= 90 THEN c - 65
    ELSE IF c >= 97 /\ c <= 122 THEN c - 71
    ELSE IF c >= 48 /\ c <= 57 THEN c + 4
    ELSE IF c = 43 THEN 62
    ELSE IF c = 47 THEN 63
    ELSE 64

\* The encoding table: the character of a sextet.
B64Char(n) ==
    IF n < 26 THEN n + 65
    ELSE IF n < 52 THEN n + 71
    ELSE IF n < 62 THEN n - 4
    ELSE IF n = 62 THEN 43
    ELSE 47

IsPad(c) == c = 61

\* One character of binascii.a2b_base64 in its default, non-strict mode.
\* st = [qp: position in the quad, pads: consecutive '=', left: pending
\* bits, out: bytes so far, done: a complete pad sequence was read].
A2BStep(st, c) ==
    IF st.done THEN st
    ELSE IF IsPad(c) THEN
        IF st.qp >= 2
        THEN IF st.qp + st.pads + 1 >= 4
             THEN [st EXCEPT !.pads = @ + 1, !.done = TRUE]
             ELSE [st EXCEPT !.pads = @ + 1]
        ELSE st
    ELSE IF Sextet(c) >= 64 THEN st
    ELSE LET s == Sextet(c) IN
         CASE st.qp = 0 -> [st EXCEPT !.pads = 0, !.qp = 1, !.left = s]
           [] st.qp = 1 -> [st EXCEPT !.pads = 0, !.qp = 2, !.left = (s % 16),
                               !.out = Append(@, st.left * 4 + (s \div 16))]
           [] st.qp = 2 -> [st EXCEPT !.pads = 0, !.qp = 3, !.left = (s % 4),
                               !.out = Append(@, st.left * 16 + (s \div 4))]
           [] st.qp = 3 -> [st EXCEPT !.pads = 0, !.qp = 0, !.left = 0,
                               !.out = Append(@, st.left * 64 + s)]

RECURSIVE A2BRun(_, _, _)
A2BRun(s, i, st) ==
    IF i > Len(s) THEN st ELSE A2BRun(s, i + 1, A2BStep(st, s[i]))

\* base64.b64decode(s) for a str s with validate=False: a non-ASCII
\* character raises ValueError; characters outside the alphabet are
\* discarded; an incomplete quad raises binascii.Error.
B64Decode(s) ==
    LET st == A2BRun(s, 1, [qp |-> 0, pads |-> 0, left |-> 0, out |-> <<>>, done |-> FALSE])
    IN  IF \E i \in 1..Len(s) : s[i] > 127 THEN Raise("ValueError")
        ELSE IF ~st.done /\ st.qp # 0 THEN Raise("binascii.Error")
        ELSE Ok(st.out)

\* base64.b64encode(b).decode("ascii"): three bytes to four characters,
\* the last group padded with '='.
RECURSIVE B64Encode(_)
B64Encode(b) ==
    IF Len(b) = 0 THEN <<>>
    ELSE IF Len(b) = 1 THEN
        <<B64Char(b[1] \div 4), B64Char((b[1] % 4) * 16), 61, 61>>
    ELSE IF Len(b) = 2 THEN
        <<B64Char(b[1] \div 4), B64Char((b[1] % 4) * 16 + (b[2] \div 16)),
          B64Char((b[2] % 16) * 4), 61>>
    ELSE <<B64Char(b[1] \div 4), B64Char((b[1] % 4) * 16 + (b[2] \div 16)),
           B64Char((b[2] % 16) * 4 + (b[3] \div 64)), B64Char(b[3] % 64)>>
         \o B64Encode(SubSeq(b, 4, Len(b)))

\* ------------------------------------------------------------- utf-8
\* str.encode("utf-8") of one code point; a surrogate cannot be encoded.
Utf8Char(c) ==
    IF c < 128 THEN <<c>>
    ELSE IF c < 2048 THEN <<192 + (c \div 64), 128 + (c % 64)>>
    ELSE IF c < 65536 THEN <<224 + (c \div 4096), 128 + ((c \div 64) % 64), 128 + (c % 64)>>
    ELSE <<240 + (c \div 262144), 128 + ((c \div 4096) % 64),
           128 + ((c \div 64) % 64), 128 + (c % 64)>>

IsSurrogate(c) == c >= 55296 /\ c <= 57343

RECURSIVE Utf8Bytes(_)
Utf8Bytes(s) == IF s = <<>> THEN <<>> ELSE Utf8Char(Head(s)) \o Utf8Bytes(Tail(s))

\* payload.encode("utf-8"): raises UnicodeEncodeError on a lone surrogate.
Utf8Encode(s) ==
    IF \E i \in 1..Len(s) : IsSurrogate(s[i]) THEN Raise("UnicodeEncodeError")
    ELSE Ok(Utf8Bytes(s))

IsCont(b) == b >= 128 /\ b <= 191

\* bytes.decode("utf-8"), strict: the code points of b, or a failure on a
\* stray continuation byte, a truncated or overlong sequence, a surrogate
\* or a value above U+10FFFF.
RECURSIVE Utf8Decode(_)
Utf8Decode(b) ==
    IF b = <<>> THEN Ok(<<>>)
    ELSE LET h == Head(b)
             n == IF h < 128 THEN 1
                  ELSE IF h >= 194 /\ h <= 223 THEN 2
                  ELSE IF h >= 224 /\ h <= 239 THEN 3
                  ELSE IF h >= 240 /\ h <= 244 THEN 4
                  ELSE 0
         IN  IF n = 0 \/ Len(b) < n \/ \E k \in 2..n : ~IsCont(b[k])
             THEN Raise("UnicodeDecodeError")
             ELSE LET cp == CASE n = 1 -> h
                              [] n = 2 -> (h - 192) * 64 + (b[2] - 128)
                              [] n = 3 -> (h - 224) * 4096 + (b[2] - 128) * 64 + (b[3] - 128)
                              [] n = 4 -> (h - 240) * 262144 + (b[2] - 128) * 4096
                                          + (b[3] - 128) * 64 + (b[4] - 128)
                      rest == Utf8Decode(SubSeq(b, n + 1, Len(b)))
                  IN  IF (n = 3 /\ cp < 2048) \/ (n = 4 /\ cp < 65536)
                         \/ IsSurrogate(cp) \/ cp > 1114111 \/ ~rest.ok
                      THEN Raise("UnicodeDecodeError")
                      ELSE Ok(<<cp>> \o rest.v)


\* ------------------------------------------------- backend configuration
\* The settings SharePointSettings.from_env() reads: fixed for the process.
SiteUrl == <<"h", ":">>
DefaultLibrary == <<"L">>

\* --------------------------------------------------------------- inputs
\* Payload characters: 'Q' (alphabet), '=' (pad), '!' (ASCII, outside the
\* alphabet), U+00E9 (non-ASCII, two UTF-8 bytes), U+D800 (lone surrogate).
PayloadChars == {81, 61, 33, 233, 55296}
Payloads == SeqsUpTo(PayloadChars, MaxLen)
\* "", "QQ==", "QQ=", "Q!Q==", "é", "\ud800"
SamplePayloads ==
    {<<>>, <<81, 81, 61, 61>>, <<81, 81, 61>>, <<81, 33, 81, 61, 61>>, <<233>>, <<55296>>}

\* File contents: 'A', the two bytes of U+00E9, and 0xFF (never valid UTF-8).
FileByteVals == {65, 195, 169, 255}
FileBytes == SeqsUpTo(FileByteVals, MaxBytes)

FolderArgs == {NoneV, StrV(<<>>), StrV(<<"d">>)}
FilePathArgs == {StrV(<<"d", "/", "f">>)}
UrlPathArgs == {StrV(<<>>), StrV(<<"d">>)}
NameArgs == {StrV(<<"f">>)}
Modes == {"auto", "text", "binary"}
\* What a folder may hold: (name, is_folder, size) of each child, in order.
Listings ==
    {<<>>,
     <<[name |-> <<"f">>, is_folder |-> FALSE, size |-> 1]>>,
     <<[name |-> <<"s">>, is_folder |-> TRUE, size |-> 0],
       [name |-> <<"f">>, is_folder |-> FALSE, size |-> 1]>>}

\* ---------------------------------------------------------------- state
VARIABLES
    envOk,          \* the SharePoint settings are present in the environment
    cache,          \* lru_cache of get_service: 0 when empty, else the handle
    constructions,  \* SharePointService objects constructed so far
    pending,        \* requests accepted by the framework, not yet run
    cur,            \* the tool coroutine the event loop is running
    store,          \* server-relative paths written to the document store
    resolved,       \* per path, the mappings resolve_download_url returned
    handlesUsed,    \* handles that completed invocations worked with
    raised,         \* some get_service() call has raised
    cpc,            \* dispatcher: position in main()
    words,          \* dispatcher: args.prompt
    argsOk,         \* dispatcher: the command line parses
    apiKey,         \* dispatcher: OPENAI_API_KEY is set and non-empty
    prompt,         \* dispatcher: the effective prompt
    requests,       \* dispatcher: calls of client.responses.create
    output_text,    \* dispatcher: what run_chatgpt_request returned
    output,         \* dispatcher: what main() printed to standard output
    exitStatus      \* dispatcher: "running", "ok", "usage", "exception"

serverVars == <<envOk, cache, constructions, pending, cur, store, resolved, handlesUsed, raised>>
clientVars == <<cpc, words, argsOk, apiKey, prompt, requests, output_text, output, exitStatus>>
vars == <<envOk, cache, constructions, pending, cur, store, resolved, handlesUsed, raised,
          cpc, words, argsOk, apiKey, prompt, requests, output_text, output, exitStatus>>

\* What a handler holds when it has returned no mapping.
NoResult == [raised |-> TRUE]

IdleCur ==
    [tool |-> "none", path |-> NoneV, mode |-> "auto", folder |-> NoneV,
     name |-> NoneV, payload |-> NoneV, is_base64 |-> FALSE, cold |-> FALSE,
     raw_folder |-> NoneV,
     pc |-> "idle", svc |-> 0, constructed |-> FALSE, data |-> NoneV,
     calls |-> <<>>, status |-> "idle", error |-> "", result |-> NoResult]

\* --------------------------------------------------------- get_service
\* get_service without its lru_cache: every call constructs a new client.
NoCacheGetService(cacheV, env, ctorOk, n) ==
    IF ~env \/ ~ctorOk
    THEN [ok |-> FALSE, handle |-> 0, cache |-> 0, constructions |-> n,
          built |-> FALSE, err |-> "RuntimeError"]
    ELSE [ok |-> TRUE, handle |-> n + 1, cache |-> 0, constructions |-> n + 1,
          built |-> TRUE, err |-> ""]

\* get_service caching the handle before the constructor has finished: a
\* failed construction leaves a handle in the cache.
HalfInitGetService(cacheV, env, ctorOk, n) ==
    IF cacheV # 0
    THEN [ok |-> TRUE, handle |-> cacheV, cache |-> cacheV, constructions |-> n,
          built |-> FALSE, err |-> ""]
    ELSE IF ~env
    THEN [ok |-> FALSE, handle |-> 0, cache |-> 0, constructions |-> n,
          built |-> FALSE, err |-> "RuntimeError"]
    ELSE IF ~ctorOk
    THEN [ok |-> FALSE, handle |-> 0, cache |-> n + 1, constructions |-> n,
          built |-> FALSE, err |-> "ServiceError"]
    ELSE [ok |-> TRUE, handle |-> n + 1, cache |-> n + 1, constructions |-> n + 1,
          built |-> TRUE, err |-> ""]

\* @lru_cache(maxsize=1) get_service(): a hit returns the cached handle; a
\* miss runs the body, and only a value that is returned gets cached (an
\* exception leaves the cache as it was).  n counts constructions.
GetService(cacheV, env, ctorOk, n) ==
    IF cacheV # 0
    THEN [ok |-> TRUE, handle |-> cacheV, cache |-> cacheV, constructions |-> n,
          built |-> FALSE, err |-> ""]
    ELSE IF ~env
    THEN [ok |-> FALSE, handle |-> 0, cache |-> 0, constructions |-> n,
          built |-> FALSE, err |-> "RuntimeError"]
    ELSE IF ~ctorOk
    THEN [ok |-> FALSE, handle |-> 0, cache |-> 0, constructions |-> n,
          built |-> FALSE, err |-> "ServiceError"]
    ELSE [ok |-> TRUE, handle |-> n + 1, cache |-> n + 1, constructions |-> n + 1,
          built |-> TRUE, err |-> ""]

\* ------------------------------------------------- backend service client
\* The folder the backend enumerates for list_folder(folder).
BackendFolder(folder) == OrElse(folder, StrV(DefaultLibrary))

\* svc.build_absolute_url(path)
BuildAbsoluteUrl(path) == SiteUrl \o path

JoinPath(folder, name) == folder \o <<"/">> \o name

\* The SharePointFile of a child `name` of `folder`.
FileMeta(folder, name, size, isFolder) ==
    [name |-> name, server_relative_path |-> JoinPath(folder, name), size |-> size,
     is_folder |-> isFolder, download_url |-> BuildAbsoluteUrl(JoinPath(folder, name))]

\* svc.list_folder(folder), the folder holding `listing`.
BackendList(folder, listing) ==
    [i \in 1..Len(listing) |->
        FileMeta(BackendFolder(folder).v, listing[i].name, listing[i].size,
                 listing[i].is_folder)]

\* svc.download_file(path, as_text) of a file holding `bytes`; as_text is
\* "true", "false" or "default" (the backend infers, here: inferText).
BackendDownload(path, asText, bytes, inferText) ==
    LET meta == [name |-> <<"f">>, server_relative_path |-> path, size |-> Len(bytes),
                 is_folder |-> FALSE, download_url |-> BuildAbsoluteUrl(path)]
        wantText == asText = "true" \/ (asText = "default" /\ inferText)
        text == Utf8Decode(bytes)
    IN  IF ~wantText THEN Ok([file |-> meta, content |-> BytesV(bytes)])
        ELSE IF text.ok THEN Ok([file |-> meta, content |-> StrV(text.v)])
        ELSE Raise("UnicodeDecodeError")

\* svc.upload_file(folder, name, data)
BackendUpload(folder, name, data) == FileMeta(folder, name, Len(data), FALSE)

\* A backend call as the backend saw it; data holds the bytes written by an
\* upload, or the bytes of the file read by a download.
Call(op, folder, name, data, asText, ok) ==
    [op |-> op, folder |-> folder, name |-> name, data |-> data, as_text |-> asText,
     ok |-> ok]

\* ---------------------------------------------------------------- tools
\* _serialize_file without the isinstance test: the content always goes
\* out under the "text" tag.
WrongSerializeFile(file_obj, include_content) ==
    LET base == [name |-> file_obj.file.name, path |-> file_obj.file.server_relative_path,
                 size |-> file_obj.file.size, download_url |-> file_obj.file.download_url]
    IN  IF ~include_content THEN base
        ELSE base @@ [content_type |-> "text", text |-> file_obj.content.v]

\* _serialize_file(file_obj, include_content)
serialize_file(file_obj, include_content) ==
    LET base == [name |-> file_obj.file.name, path |-> file_obj.file.server_relative_path,
                 size |-> file_obj.file.size, download_url |-> file_obj.file.download_url]
    IN  IF ~include_content THEN base
        ELSE IF file_obj.content.t = "str"
        THEN base @@ [content_type |-> "text", text |-> file_obj.content.v]
        ELSE base @@ [content_type |-> "base64", base64 |-> B64Encode(file_obj.content.v)]

Fail(c, e) == [c EXCEPT !.pc = "reply", !.status = "error", !.error = e]
Return(c, r) == [c EXCEPT !.pc = "reply", !.status = "ok", !.result = r]

\* list_folder echoing the raw argument instead of `path or default_library`.
WrongListFolder(c, backendOk, listing) ==
    LET call == Call("list_folder", c.path, NoneV, NoneV, "none", backendOk)
        c1 == [c EXCEPT !.calls = Append(@, call)]
    IN  IF ~backendOk THEN [c1 EXCEPT !.pc = "reply", !.status = "error",
                                      !.error = "BackendError"]
        ELSE [c1 EXCEPT !.pc = "reply", !.status = "ok",
                        !.result = [path |-> c.path.v, items |-> <<>>]]

\* list_folder, after get_service: the backend call and the mapping.
list_folder(c, backendOk, listing) ==
    LET call == Call("list_folder", c.path, NoneV, NoneV, "none", backendOk)
        c1 == [c EXCEPT !.calls = Append(@, call)]
        items == BackendList(c.path, listing)
    IN  IF ~backendOk THEN Fail(c1, "BackendError")
        ELSE Return(c1,
               [path |-> OrElse(c.path, StrV(DefaultLibrary)).v,
                items |-> [i \in 1..Len(items) |->
                    [name |-> items[i].name, path |-> items[i].server_relative_path,
                     type |-> IF items[i].is_folder THEN "folder" ELSE "file",
                     size |-> items[i].size, download_url |-> items[i].download_url]]])

\* download_file, after get_service.
download_file(c, backendOk, bytes, inferText) ==
    LET asText == IF c.mode = "text" THEN "true"
                  ELSE IF c.mode = "binary" THEN "false" ELSE "default"
        got == BackendDownload(c.path.v, asText, bytes, inferText)
        call == Call("download_file", c.path, NoneV, BytesV(bytes), asText,
                     backendOk /\ got.ok)
        c1 == [c EXCEPT !.calls = Append(@, call)]
    IN  IF ~backendOk THEN Fail(c1, "BackendError")
        ELSE IF ~got.ok THEN Fail(c1, got.err)
        ELSE Return(c1, serialize_file(got.v, TRUE))

\* upload_file with the is_base64 flag ignored: the payload is always
\* UTF-8 encoded.
WrongUploadFileDecode(c) ==
    LET decoded == Utf8Encode(c.payload.v)
    IN  IF ~decoded.ok
        THEN [c EXCEPT !.pc = "reply", !.status = "error", !.error = decoded.err]
        ELSE [c EXCEPT !.pc = "call", !.data = BytesV(decoded.v),
                       !.raw_folder = OrElse(c.folder, StrV(DefaultLibrary))]

\* upload_file, after get_service: raw_folder and data.
upload_file_decode(c) ==
    LET decoded == IF c.is_base64 THEN B64Decode(c.payload.v) ELSE Utf8Encode(c.payload.v)
    IN  IF ~decoded.ok THEN Fail(c, decoded.err)
        ELSE [c EXCEPT !.pc = "call", !.data = BytesV(decoded.v),
                       !.raw_folder = OrElse(c.folder, StrV(DefaultLibrary))]

\* upload_file trying the backend a second time after a failure.
RetryUploadFileCall(c, backendOk) ==
    LET call == Call("upload_file", c.raw_folder, c.name, c.data, "none", backendOk)
        again == Call("upload_file", c.raw_folder, c.name, c.data, "none", TRUE)
        file_obj == BackendUpload(c.raw_folder.v, c.name.v, c.data.v)
        calls == IF backendOk THEN <<call>> ELSE <<call, again>>
    IN  [c EXCEPT !.calls = calls, !.pc = "reply", !.status = "ok",
                  !.result = [name |-> file_obj.name,
                              path |-> file_obj.server_relative_path,
                              size |-> file_obj.size,
                              download_url |-> file_obj.download_url]]

\* upload_file: the backend call and the mapping.
upload_file_call(c, backendOk) ==
    LET call == Call("upload_file", c.raw_folder, c.name, c.data, "none", backendOk)
        c1 == [c EXCEPT !.calls = Append(@, call)]
        file_obj == BackendUpload(c.raw_folder.v, c.name.v, c.data.v)
    IN  IF ~backendOk THEN Fail(c1, "BackendError")
        ELSE Return(c1, [name |-> file_obj.name, path |-> file_obj.server_relative_path,
                         size |-> file_obj.size, download_url |-> file_obj.download_url])

\* resolve_download_url answering the first caller of a fresh client with
\* the default library's URL.
WrongResolveDownloadUrl(c, backendOk) ==
    LET call == Call("build_absolute_url", c.path, NoneV, NoneV, "none", backendOk)
        c1 == [c EXCEPT !.calls = Append(@, call)]
        p == IF c.constructed THEN DefaultLibrary ELSE c.path.v
    IN  IF ~backendOk THEN [c1 EXCEPT !.pc = "reply", !.status = "error",
                                      !.error = "BackendError"]
        ELSE [c1 EXCEPT !.pc = "reply", !.status = "ok",
                        !.result = [path |-> c.path.v,
                                    download_url |-> BuildAbsoluteUrl(p)]]

\* resolve_download_url, after get_service.
resolve_download_url(c, backendOk) ==
    LET call == Call("build_absolute_url", c.path, NoneV, NoneV, "none", backendOk)
        c1 == [c EXCEPT !.calls = Append(@, call)]
    IN  IF ~backendOk THEN Fail(c1, "BackendError")
        ELSE Return(c1, [path |-> c.path.v, download_url |-> BuildAbsoluteUrl(c.path.v)])

\* ------------------------------------------------------- server actions
\* The framework accepts a tools/call request and schedules its handler.
\* `cold` requests arrived while no handle was cached.
Receive ==
    /\ pending.cold + pending.warm < MaxPending
    /\ pending' = IF cache = 0 THEN [pending EXCEPT !.cold = @ + 1]
                  ELSE [pending EXCEPT !.warm = @ + 1]
    /\ UNCHANGED <<envOk, cache, constructions, cur, store, resolved, handlesUsed, raised>>
    /\ UNCHANGED clientVars

\* The event loop starts the oldest queued request's coroutine; it runs to
\* its return, because no handler awaits.
Start(c) ==
    /\ cur.pc = "idle"
    /\ pending.cold + pending.warm > 0
    /\ pending' = IF pending.cold > 0 THEN [pending EXCEPT !.cold = @ - 1]
                  ELSE [pending EXCEPT !.warm = @ - 1]
    /\ cur' = [c EXCEPT !.pc = "get_service", !.status = "running",
                        !.cold = pending.cold > 0]
    /\ UNCHANGED <<envOk, cache, constructions, store, resolved, handlesUsed, raised>>
    /\ UNCHANGED clientVars

CallListFolder ==
    \E p \in FolderArgs : Start([IdleCur EXCEPT !.tool = "list_folder", !.path = p])

CallDownloadFile ==
    \E p \in FilePathArgs, m \in Modes :
        Start([IdleCur EXCEPT !.tool = "download_file", !.path = p, !.mode = m])

CallUploadFile(payloads) ==
    \E f \in FolderArgs, n \in NameArgs, p \in payloads, b \in BOOLEAN :
        Start([IdleCur EXCEPT !.tool = "upload_file", !.folder = f, !.name = n,
                              !.payload = StrV(p), !.is_base64 = b])

CallResolveDownloadUrl ==
    \E p \in UrlPathArgs :
        Start([IdleCur EXCEPT !.tool = "resolve_download_url", !.path = p])

\* svc = get_service(), the first statement of every tool.
GetServiceStep ==
    /\ cur.pc = "get_service"
    /\ \E ctorOk \in BOOLEAN :
        LET g == GetService(cache, envOk, ctorOk, constructions)
        IN  /\ cache' = g.cache
            /\ constructions' = g.constructions
            /\ cur' = IF g.ok
                      THEN [cur EXCEPT !.pc = "body", !.svc = g.handle,
                                       !.constructed = g.built]
                      ELSE Fail(cur, g.err)
            /\ raised' = (raised \/ ~g.ok)
    /\ UNCHANGED <<envOk, pending, store, resolved, handlesUsed>>
    /\ UNCHANGED clientVars

ListFolderBody ==
    /\ cur.pc = "body" /\ cur.tool = "list_folder"
    /\ \E backendOk \in BOOLEAN, listing \in Listings :
        cur' = list_folder(cur, backendOk, listing)
    /\ UNCHANGED <<envOk, cache, constructions, pending, store, resolved, handlesUsed, raised>>
    /\ UNCHANGED clientVars

DownloadFileBody ==
    /\ cur.pc = "body" /\ cur.tool = "download_file"
    /\ \E backendOk \in BOOLEAN, bytes \in FileBytes, inferText \in BOOLEAN :
        cur' = download_file(cur, backendOk, bytes, inferText)
    /\ UNCHANGED <<envOk, cache, constructions, pending, store, resolved, handlesUsed, raised>>
    /\ UNCHANGED clientVars

UploadFileDecode ==
    /\ cur.pc = "body" /\ cur.tool = "upload_file"
    /\ cur' = upload_file_decode(cur)
    /\ UNCHANGED <<envOk, cache, constructions, pending, store, resolved, handlesUsed, raised>>
    /\ UNCHANGED clientVars

UploadFileCall ==
    /\ cur.pc = "call" /\ cur.tool = "upload_file"
    /\ \E backendOk \in BOOLEAN :
        /\ cur' = upload_file_call(cur, backendOk)
        /\ store' = IF \E i \in 1..Len(cur'.calls) :
                           cur'.calls[i].op = "upload_file" /\ cur'.calls[i].ok
                    THEN store \cup {JoinPath(cur.raw_folder.v, cur.name.v)}
                    ELSE store
    /\ UNCHANGED <<envOk, cache, constructions, pending, resolved, handlesUsed, raised>>
    /\ UNCHANGED clientVars

ResolveDownloadUrlBody ==
    /\ cur.pc = "body" /\ cur.tool = "resolve_download_url"
    /\ \E backendOk \in BOOLEAN : cur' = resolve_download_url(cur, backendOk)
    /\ UNCHANGED <<envOk, cache, constructions, pending, store, resolved, handlesUsed, raised>>
    /\ UNCHANGED clientVars

\* The coroutine returns (or raises) and the framework answers the caller.
Reply ==
    /\ cur.pc = "reply"
    /\ cur' = IdleCur
    /\ resolved' = IF cur.tool = "resolve_download_url" /\ cur.status = "ok"
                   THEN [resolved EXCEPT ![cur.path.v] = @ \cup {cur.result}]
                   ELSE resolved
    /\ handlesUsed' = IF cur.svc # 0 THEN handlesUsed \cup {cur.svc} ELSE handlesUsed
    /\ UNCHANGED <<envOk, cache, constructions, pending, store, raised>>
    /\ UNCHANGED clientVars

ServerInit ==
    /\ envOk \in BOOLEAN
    /\ cache = 0
    /\ constructions = 0
    /\ pending = [cold |-> 0, warm |-> 0]
    /\ cur = IdleCur
    /\ store = {}
    /\ resolved = [p \in {a.v : a \in UrlPathArgs} |-> {}]
    /\ handlesUsed = {}
    /\ raised = FALSE


\* ------------------------------------------------------------ dispatcher
\* The fallback prompt of ensure_prompt, character by character.
DefaultPrompt ==
    <<
      "L", "i", "s", "t", " ", "t", "h", "e", " ", "f", "i", "l", "e", "s",
      " ", "a", "v", "a", "i", "l", "a", "b", "l", "e", " ", "i", "n", " ",
      "o", "u", "r", " ", "S", "h", "a", "r", "e", "P", "o", "i", "n", "t",
      " ", "d", "o", "c", "u", "m", "e", "n", "t", " ", "l", "i", "b", "r",
      "a", "r", "y", "."
    >>

\* "".join(words): the separator forgotten.
RECURSIVE WrongJoinWords(_)
WrongJoinWords(ws) ==
    IF Len(ws) = 1 THEN ws[1] ELSE ws[1] \o WrongJoinWords(Tail(ws))

\* " ".join(words) for a non-empty list of words.
RECURSIVE JoinWords(_)
JoinWords(ws) ==
    IF Len(ws) = 1 THEN ws[1] ELSE ws[1] \o <<" ">> \o JoinWords(Tail(ws))

\* ensure_prompt(words)
ensure_prompt(ws) == IF ws # <<>> THEN JoinWords(ws) ELSE DefaultPrompt

\* Command-line words: "", "a", "b c" (one quoted argument).
Words == {<<>>, <<"a">>, <<"b", " ", "c">>}
\* response.output_text: None, "" or a text.
OutputTexts == {NoneV, StrV(<<>>), StrV(<<"o", "k">>)}

\* args = parser.parse_args(): argparse exits with a usage error on a
\* command line it cannot parse.
ParseArgs ==
    /\ cpc = "parse_args"
    /\ IF argsOk
       THEN cpc' = "ensure_prompt" /\ UNCHANGED exitStatus
       ELSE cpc' = "exited" /\ exitStatus' = "usage"
    /\ UNCHANGED <<words, argsOk, apiKey, prompt, requests, output_text, output>>
    /\ UNCHANGED serverVars

\* prompt = ensure_prompt(args.prompt)
EnsurePrompt ==
    /\ cpc = "ensure_prompt"
    /\ prompt' = StrV(ensure_prompt(words))
    /\ cpc' = "check_key"
    /\ UNCHANGED <<words, argsOk, apiKey, requests, output_text, output, exitStatus>>
    /\ UNCHANGED serverVars

\* main() without the credential check.
WrongCheckKey ==
    /\ cpc = "check_key"
    /\ cpc' = "request"
    /\ UNCHANGED <<words, argsOk, apiKey, prompt, requests, output_text, output, exitStatus>>
    /\ UNCHANGED serverVars

\* if not os.getenv("OPENAI_API_KEY"): parser.error(...)
CheckKey ==
    /\ cpc = "check_key"
    /\ IF apiKey
       THEN cpc' = "request" /\ UNCHANGED exitStatus
       ELSE cpc' = "exited" /\ exitStatus' = "usage"
    /\ UNCHANGED <<words, argsOk, apiKey, prompt, requests, output_text, output>>
    /\ UNCHANGED serverVars

\* What run_chatgpt_request returns for a response: response.output_text or "".
run_chatgpt_request(text) == OrElse(text, StrV(<<>>))

\* output_text = run_chatgpt_request(...): one client.responses.create call,
\* which returns a response or raises.
SubmitRequest ==
    /\ cpc = "request"
    /\ requests' = requests + 1
    /\ \/ /\ cpc' = "exited" /\ exitStatus' = "exception"
          /\ UNCHANGED output_text
       \/ \E text \in OutputTexts :
             /\ cpc' = "print"
             /\ output_text' = run_chatgpt_request(text)
             /\ UNCHANGED exitStatus
    /\ UNCHANGED <<words, argsOk, apiKey, prompt, output>>
    /\ UNCHANGED serverVars

\* print(output_text), and main returns.
PrintOutput ==
    /\ cpc = "print"
    /\ output' = Append(output, output_text.v)
    /\ cpc' = "exited"
    /\ exitStatus' = "ok"
    /\ UNCHANGED <<words, argsOk, apiKey, prompt, requests, output_text>>
    /\ UNCHANGED serverVars

ClientInit ==
    /\ cpc = "parse_args"
    /\ words \in SeqsUpTo(Words, MaxWords)
    /\ argsOk \in BOOLEAN
    /\ apiKey \in BOOLEAN
    /\ prompt = NoneV
    /\ requests = 0
    /\ output_text = NoneV
    /\ output = <<>>
    /\ exitStatus = "running"

\* The dispatcher process as it is when only the server is looked at.
ClientAbsent ==
    /\ cpc = "parse_args" /\ words = <<>> /\ argsOk = TRUE /\ apiKey = TRUE
    /\ prompt = NoneV /\ requests = 0 /\ output_text = NoneV /\ output = <<>>
    /\ exitStatus = "running"

\* -------------------------------------------------------- specifications
\* The tool server: every tool, sample upload payloads.
Init == ServerInit /\ ClientAbsent

Next ==
    \/ Receive
    \/ CallListFolder
    \/ CallDownloadFile
    \/ CallUploadFile(SamplePayloads)
    \/ CallResolveDownloadUrl
    \/ GetServiceStep
    \/ ListFolderBody
    \/ DownloadFileBody
    \/ UploadFileDecode
    \/ UploadFileCall
    \/ ResolveDownloadUrlBody
    \/ Reply

Spec == Init /\ [][Next]_vars

\* One upload_file invocation, over every payload up to MaxLen: the event
\* loop has just started the coroutine, with the cache empty or filled.
InitUpload ==
    /\ envOk \in BOOLEAN
    /\ \E warm \in {w \in BOOLEAN : w => envOk} :
          /\ cache = (IF warm THEN 1 ELSE 0)
          /\ constructions = (IF warm THEN 1 ELSE 0)
          /\ handlesUsed = (IF warm THEN {1} ELSE {})
    /\ pending = [cold |-> 0, warm |-> 0]
    /\ \E f \in FolderArgs, n \in NameArgs, p \in Payloads, b \in BOOLEAN :
          cur = [IdleCur EXCEPT !.tool = "upload_file", !.folder = f, !.name = n,
                                !.payload = StrV(p), !.is_base64 = b,
                                !.pc = "get_service", !.status = "running",
                                !.cold = (cache = 0)]
    /\ store = {}
    /\ resolved = [p \in {a.v : a \in UrlPathArgs} |-> {}]
    /\ raised = FALSE
    /\ ClientAbsent

NextUpload ==
    \/ GetServiceStep
    \/ UploadFileDecode
    \/ UploadFileCall
    \/ Reply

SpecUpload == InitUpload /\ [][NextUpload]_vars

\* The prompt dispatcher, one run of main().
InitClient == ServerInit /\ envOk /\ ClientInit

NextClient ==
    \/ ParseArgs
    \/ EnsurePrompt
    \/ CheckKey
    \/ SubmitRequest
    \/ PrintOutput

SpecClient == InitClient /\ [][NextClient]_vars


\* ------------------------------------------------------------ properties
\* The handles the invocations have worked with, the running one included.
HandlesSeen == handlesUsed \cup (IF cur.svc # 0 THEN {cur.svc} ELSE {})

\* C1: however the first invocations of the tools are queued and run, at
\* most one SharePointService is ever constructed, and every invocation
\* that obtained a handle works with that one, cached, handle.
C1_SingleConstruction ==
    /\ constructions <= 1
    /\ \A h \in HandlesSeen : h = cache

\* A request that arrived while the cache was empty and then found the
\* handle another first invocation had constructed.
C1_Witness ==
    /\ cur.cold /\ cur.svc = 1 /\ ~cur.constructed
    /\ constructions = 1 /\ 1 \in handlesUsed

\* RFC 4648 validity of a base64 text: alphabet characters in groups of
\* four, with at most two '=' and only at the very end.
IsB64Alpha(c) == Sextet(c) < 64

ValidBase64(s) ==
    /\ Len(s) % 4 = 0
    /\ \A i \in 1..Len(s) :
          \/ IsB64Alpha(s[i])
          \/ /\ IsPad(s[i])
             /\ i >= Len(s) - 1
             /\ IsPad(s[Len(s)])

\* C2: upload_file with is_base64 = true and a payload that is not valid
\* base64 fails without ever calling the backend.
C2_MalformedBase64Rejected ==
    (cur.tool = "upload_file" /\ cur.is_base64 /\ ~ValidBase64(cur.payload.v))
        => /\ cur.calls = <<>>
           /\ cur.pc = "reply" => cur.status = "error"

\* The bytes a base64 text stands for, stated on its data characters: of
\* the n sextets d, byte k is bits 8(k-1) .. 8k-1 of their concatenation.
RefBytes(d) ==
    [k \in 1..((6 * Len(d)) \div 8) |->
        LET bit == 8 * (k - 1)
            i == (bit \div 6) + 1
            r == bit % 6
        IN  ((d[i] * 64 + d[i + 1]) \div (2 ^ (4 - r))) % 256]

AlphaCount(s, j) == Cardinality({i \in 1..j : IsB64Alpha(s[i])})
\* The '=' read since the last data character before position j.
PadsAt(s, j) ==
    Cardinality({i \in 1..j : IsPad(s[i]) /\ \A m \in i..j : ~IsB64Alpha(s[m])})
\* Position j completes the padding of an unfinished group.
Stops(s, j) ==
    /\ IsPad(s[j])
    /\ AlphaCount(s, j) % 4 >= 2
    /\ (AlphaCount(s, j) % 4) + PadsAt(s, j) >= 4
\* The data characters of s: its alphabet characters up to the first
\* completed padding.
DataSextets(s) ==
    LET stops == {j \in 1..Len(s) : Stops(s, j)}
        end == IF stops = {} THEN Len(s)
               ELSE CHOOSE j \in stops : \A m \in stops : j <= m
        data == SelectSeq(SubSeq(s, 1, end), IsB64Alpha)
    IN  [i \in 1..Len(data) |-> Sextet(data[i])]

\* The padding of s hides no non-zero bits.
ZeroTail(s) ==
    /\ (Len(s) >= 2 /\ IsPad(s[Len(s) - 1])) => Sextet(s[Len(s) - 2]) % 16 = 0
    /\ (Len(s) >= 2 /\ IsPad(s[Len(s)]) /\ ~IsPad(s[Len(s) - 1]))
          => Sextet(s[Len(s) - 1]) % 4 = 0

UploadCalls == {i \in 1..Len(cur.calls) : cur.calls[i].op = "upload_file"}

\* C3: the bytes handed to the backend's upload are the decoded payload:
\* for a base64 payload the bytes its data characters stand for (so a
\* canonical text encodes back from them), for a text payload its UTF-8
\* encoding (so they decode back to the payload).
C3_UploadWritesDecodedPayload ==
    \A i \in UploadCalls :
        LET d == cur.calls[i].data IN
        /\ d.t = "bytes"
        /\ IF cur.is_base64
           THEN /\ d.v = RefBytes(DataSextets(cur.payload.v))
                /\ (ValidBase64(cur.payload.v) /\ ZeroTail(cur.payload.v))
                      => B64Encode(d.v) = cur.payload.v
           ELSE Utf8Decode(d.v) = Ok(cur.payload.v)

\* "QQQ=" uploaded as the two bytes 0x41 0x04.
C3_Witness ==
    /\ cur.is_base64 /\ cur.payload.v = <<81, 81, 81, 61>>
    /\ \E i \in UploadCalls : cur.calls[i].data.v = <<65, 4>> /\ cur.calls[i].ok

DownloadReturned ==
    cur.tool = "download_file" /\ cur.pc = "reply" /\ cur.status = "ok"

\* C4: download_file's result carries exactly one content field and the
\* tag that names it; mode "text" gives the tag "text" with the decoded
\* string, mode "binary" the tag "base64" with a valid base64 text that
\* decodes to the file's bytes.
C4_DownloadContentKind ==
    DownloadReturned =>
        LET r == cur.result
            bytes == cur.calls[1].data.v
        IN  /\ "content_type" \in DOMAIN r
            /\ r.content_type \in {"text", "base64"}
            /\ cur.mode = "text" => r.content_type = "text"
            /\ cur.mode = "binary" => r.content_type = "base64"
            /\ r.content_type = "text"
                  => /\ "text" \in DOMAIN r /\ "base64" \notin DOMAIN r
                     /\ Utf8Encode(r.text) = Ok(bytes)
            /\ r.content_type = "base64"
                  => /\ "base64" \in DOMAIN r /\ "text" \notin DOMAIN r
                     /\ ValidBase64(r.base64)
                     /\ B64Decode(r.base64) = Ok(bytes)

\* A two-byte file downloaded in binary mode.
C4_Witness ==
    /\ DownloadReturned /\ cur.mode = "binary"
    /\ cur.calls[1].data.v = <<195, 169>>
    /\ cur.result.base64 = <<119, 54, 107, 61>>

ListReturned == cur.tool = "list_folder" /\ cur.pc = "reply" /\ cur.status = "ok"

C6_NoRequestWithoutKey ==
    /\ requests <= 1
    /\ Len(output) <= requests
    /\ ~apiKey => /\ requests = 0
                  /\ output = <<>>
                  /\ cpc \notin {"request", "print"}
                  /\ cpc = "exited" => exitStatus = "usage"

C6_Witness ==
    /\ ~apiKey /\ argsOk /\ cpc = "exited" /\ exitStatus = "usage"
    /\ prompt.t = "str" /\ requests = 0

\* The backend operation of each tool.
ToolOp(tool) ==
    CASE tool = "list_folder" -> "list_folder"
      [] tool = "download_file" -> "download_file"
      [] tool = "upload_file" -> "upload_file"
      [] tool = "resolve_download_url" -> "build_absolute_url"
      [] OTHER -> "none"

OneCallOfOwnKind ==
    /\ Len(cur.calls) <= 1
    /\ \A i \in 1..Len(cur.calls) : cur.calls[i].op = ToolOp(cur.tool)
    /\ (\E i \in 1..Len(cur.calls) : ~cur.calls[i].ok)
          => cur.status = "error" /\ "raised" \in DOMAIN cur.result

\* C7: an invocation makes at most one backend call, of its tool's kind; a
\* failed call fails the invocation and is not repeated; the document
\* store changes only in a step of upload_file.
C7_OneBackendCallNoRetry ==
    /\ []OneCallOfOwnKind
    /\ [][store' # store => cur.tool = "upload_file" /\ cur'.tool = "upload_file"]_vars

\* list_folder ended by a backend failure, after one call.
C7_Witness ==
    /\ cur.tool = "list_folder" /\ cur.pc = "reply" /\ cur.status = "error"
    /\ Len(cur.calls) = 1 /\ ~cur.calls[1].ok
    /\ store # {}

\* The mappings resolve_download_url has returned for path p so far.
Resolutions(p) ==
    resolved[p] \cup
        (IF cur.tool = "resolve_download_url" /\ cur.status = "ok" /\ cur.path.v = p
         THEN {cur.result} ELSE {})

\* C8: all the mappings resolve_download_url returns for one path are the
\* same mapping, and its "path" is the input path.
C8_ResolveIsPure ==
    \A p \in DOMAIN resolved :
        /\ Cardinality(Resolutions(p)) <= 1
        /\ \A r \in Resolutions(p) : r.path = p

\* A second resolution of a path, with uploads and other tools in between.
C8_Witness ==
    /\ resolved[<<"d">>] # {} /\ resolved[<<>>] # {}
    /\ cur.tool = "resolve_download_url" /\ cur.status = "ok" /\ cur.path.v = <<"d">>
    /\ store # {}

\* Where word i starts in the joined text, counted from 0.
RECURSIVE Offset(_, _)
Offset(ws, i) == IF i = 1 THEN 0 ELSE Offset(ws, i - 1) + Len(ws[i - 1]) + 1

\* p is the words of ws in order, with one space between neighbours.
IsJoined(ws, p) ==
    /\ Len(p) = Offset(ws, Len(ws)) + Len(ws[Len(ws)])
    /\ \A i \in 1..Len(ws) :
          /\ SubSeq(p, Offset(ws, i) + 1, Offset(ws, i) + Len(ws[i])) = ws[i]
          /\ i < Len(ws) => p[Offset(ws, i) + Len(ws[i]) + 1] = " "

\* C9: the effective prompt is the fallback text when no words are given,
\* and otherwise the words in order joined by single spaces.
C9_EnsurePrompt ==
    prompt.t = "str" =>
        IF Len(words) = 0 THEN prompt.v = DefaultPrompt ELSE IsJoined(words, prompt.v)

C9_Witness ==
    /\ words = << <<"a">>, <<"b", " ", "c">> >>
    /\ prompt = StrV(<<"a", " ", "b", " ", "c">>)

\* C10, in every state: a cached handle is a constructed one, and an
\* invocation that got no handle has failed without a backend call.
NoHalfInitialized ==
    /\ cache # 0 => (cache >= 1 /\ cache <= constructions)
    /\ cur.svc # 0 => cur.svc <= constructions
    /\ (cur.svc = 0 /\ cur.pc = "reply") => (cur.status = "error" /\ cur.calls = <<>>)

\* C10, in every get_service() call: a failure leaves cache and count as
\* they were; with the cache empty the call fails or constructs; with a
\* handle cached it returns that handle and constructs nothing.
GetServiceEffect ==
    (cur.pc = "get_service" /\ cur'.pc # "get_service") =>
        /\ cur'.svc = 0 =>
              /\ cache = 0 /\ cache' = 0 /\ constructions' = constructions
              /\ cur'.pc = "reply" /\ cur'.status = "error"
        /\ (cache = 0 /\ cur'.svc # 0) =>
              /\ cur'.constructed /\ constructions' = constructions + 1
              /\ cache' = cur'.svc
        /\ cache # 0 =>
              /\ cur'.svc = cache /\ ~cur'.constructed
              /\ cache' = cache /\ constructions' = constructions

\* C10: the cached handle is never half-initialized.
C10_NeverHalfInitialized == []NoHalfInitialized /\ [][GetServiceEffect]_vars

\* An invocation constructs the client after an earlier get_service() failed.
C10_Witness == raised /\ cache = 1 /\ cur.constructed /\ cur.pc = "reply"

====
